---- MODULE Spec2Model ----
(***************************************************************************)
(* KNOT gateway message processing (src/src/msg.c): the trust map from     *)
(* node sockets to sessions, the per-message handlers and msg_process.     *)
(*                                                                         *)
(* A struct trust lives on the heap: `heap' is the sequence of every trust *)
(* ever allocated, a pointer is an index into it and NULL is 0.  An        *)
(* l_queue pointer is a record [alloc, entries]; a NULL queue has          *)
(* alloc = FALSE.  The ell containers behave as the library does: a NULL   *)
(* queue finds nothing and accepts no push; l_hashmap_insert adds an       *)
(* entry without looking for the key, l_hashmap_lookup and                 *)
(* l_hashmap_remove take the first entry with the key.                     *)
(*                                                                         *)
(* The cloud operations and the peer credential lookup are external:       *)
(* their outcomes are inputs of each step.                                 *)
(***************************************************************************)
EXTENDS Integers, Sequences, FiniteSets, TLC

VARIABLES heap, trust_map, transfer, last, npdu, stopped, suspended

vars == <<heap, trust_map, transfer, last, npdu, stopped, suspended>>

---------------------------------------------------------------------------
(* Bounds of the model *)

\* struct trust objects allocated in one run
MaxTrusts == 2
\* PDUs handed to msg_process in one run
MaxPdus == 3
\* bits of value_int, value_dec and int in the model (32 in the program)
WordBits == 8

---------------------------------------------------------------------------
(* Sizes and limits of the program *)

EINVAL == 22
INT32_MAX == 2147483647
SizeofHeader == 2
SizeofId == 8
SizeofResult == 1
KNOT_PROTOCOL_UUID_LEN == 36
KNOT_PROTOCOL_TOKEN_LEN == 40

NULL == 0

---------------------------------------------------------------------------
(* Input domains *)

Socks == {1, 2}
DeviceIds == {1, 2}
\* peer pid reported by SO_PEERCRED; 0 when getsockopt fails
Pids == {0, 1}
SensorIds == {1, 2}
\* first byte of devName
NameBytes == {0, 97}

CloudErrors == {"CLOUD_FAILURE"}
CloudResults == {"SUCCESS"} \cup CloudErrors

\* credentials the cloud hands out and nodes present
Creds == {[uuid |-> "u1", token |-> "t1"], [uuid |-> "u2", token |-> "t2"]}

\* payload_len of the header, the length ilen handed to msg_process, and
\* whether omtu is at least sizeof(knot_msg)
Shape(payload_len, ilen, omtu_ok) ==
    [payload_len |-> payload_len, ilen |-> ilen, omtu_ok |-> omtu_ok]

\* one well-formed PDU, then: ilen below the header, ilen short of and beyond
\* the header's payload_len, an output buffer too small
Shapes ==
    {Shape(9, 11, TRUE),
     Shape(0, 1, TRUE), Shape(9, 10, TRUE), Shape(9, 12, TRUE), Shape(9, 11, FALSE)}

\* REGISTER_REQ also comes without a name: header only, header and id only
RegisterShapes == Shapes \cup {Shape(0, 2, TRUE), Shape(8, 10, TRUE)}

---------------------------------------------------------------------------
(* l_queue *)

NullQueue == [alloc |-> FALSE, entries |-> <<>>]
l_queue_new == [alloc |-> TRUE, entries |-> <<>>]
Queue(s) == [alloc |-> TRUE, entries |-> s]

l_queue_push_tail(q, e) ==
    IF ~q.alloc THEN q ELSE [q EXCEPT !.entries = Append(@, e)]

\* s without its first entry for sensor_id
RECURSIVE RemoveFirst(_, _)
RemoveFirst(s, sensor_id) ==
    IF s = <<>> THEN <<>>
    ELSE IF Head(s).sensor_id = sensor_id THEN Tail(s)
         ELSE <<Head(s)>> \o RemoveFirst(Tail(s), sensor_id)

\* l_queue_remove_if with config_sensor_id_cmp: the first match is unlinked
\* and returned, the walk stops there
l_queue_remove_if(q, sensor_id) ==
    IF ~q.alloc THEN q ELSE [q EXCEPT !.entries = RemoveFirst(@, sensor_id)]

\* what l_queue_find returns when nothing matches
NullEntry == [sensor_id |-> -1]

\* l_queue_find with a sensor_id comparison: the first matching entry
l_queue_find(q, sensor_id) ==
    IF ~q.alloc \/ ~(\E i \in 1..Len(q.entries) : q.entries[i].sensor_id = sensor_id)
    THEN NullEntry
    ELSE q.entries[CHOOSE i \in 1..Len(q.entries) :
                      /\ q.entries[i].sensor_id = sensor_id
                      /\ \A j \in 1..(i - 1) : q.entries[j].sensor_id # sensor_id]

---------------------------------------------------------------------------
(* l_hashmap keyed by socket *)

l_hashmap_new == <<>>

\* l_hashmap_lookup gone wrong: the key is not compared
l_hashmap_lookup_any_key(map, key) ==
    IF map # <<>> THEN map[1].value ELSE NULL

l_hashmap_lookup(map, key) ==
    IF \E i \in 1..Len(map) : map[i].key = key
    THEN map[CHOOSE i \in 1..Len(map) :
                /\ map[i].key = key
                /\ \A j \in 1..(i - 1) : map[j].key # key].value
    ELSE NULL

l_hashmap_insert(map, key, value) == Append(map, [key |-> key, value |-> value])

\* a removal that takes the first entry of the map whatever its key
l_hashmap_remove_any_key(map, key) == IF map # <<>> THEN Tail(map) ELSE map

\* the map left by l_hashmap_remove (its return value is l_hashmap_lookup)
l_hashmap_remove(map, key) ==
    IF \E i \in 1..Len(map) : map[i].key = key
    THEN LET i == CHOOSE i \in 1..Len(map) :
                     /\ map[i].key = key
                     /\ \A j \in 1..(i - 1) : map[j].key # key
         IN  SubSeq(map, 1, i - 1) \o SubSeq(map, i + 1, Len(map))
    ELSE map

---------------------------------------------------------------------------
(* struct trust *)

\* the memory of a trust after l_free
FreedTrust ==
    [refs |-> 0, pid |-> 0, id |-> 0, rollback |-> FALSE, uuid |-> "", token |-> "",
     schema |-> NullQueue, schema_tmp |-> NullQueue, config |-> NullQueue,
     freed |-> TRUE]

trust_ref(h, trust) ==
    IF trust = NULL THEN h ELSE [h EXCEPT ![trust].refs = @ + 1]

trust_unref(h, trust) ==
    IF trust = NULL THEN h
    ELSE IF h[trust].refs - 1 # 0 THEN [h EXCEPT ![trust].refs = @ - 1]
    ELSE [h EXCEPT ![trust] = FreedTrust]

\* the heap after trust_new; the new trust is its last element
trust_new(h, uuid, token, device_id, pid, rollback, schema, config) ==
    trust_ref(
        Append(h, [refs |-> 0, pid |-> pid, id |-> device_id, rollback |-> rollback,
                   uuid |-> uuid, token |-> token,
                   schema |-> IF schema.alloc THEN schema ELSE l_queue_new,
                   schema_tmp |-> l_queue_new,
                   config |-> IF config.alloc THEN config ELSE l_queue_new,
                   freed |-> FALSE]),
        Len(h) + 1)

\* trust_get_sensor_schema gone wrong: the staged list is searched
trust_get_sensor_schema_staged(trust, sensor_id) ==
    l_queue_find(trust.schema_tmp, sensor_id)

trust_get_sensor_schema(trust, sensor_id) == l_queue_find(trust.schema, sensor_id)

trust_get_sensor_schema_tmp(trust, sensor_id) == l_queue_find(trust.schema_tmp, sensor_id)

trust_sensor_schema_tmp_add(trust, schema) ==
    [trust EXCEPT !.schema_tmp = l_queue_push_tail(@, schema)]

\* trust_sensor_schema_tmp_free gone wrong: the staged list is kept
trust_sensor_schema_tmp_kept(trust) == trust

trust_sensor_schema_tmp_free(trust) == [trust EXCEPT !.schema_tmp = NullQueue]

trust_sensor_schema_complete(trust) ==
    [trust EXCEPT !.schema = trust.schema_tmp, !.schema_tmp = NullQueue]

---------------------------------------------------------------------------
(* Schema validation (knot_schema_is_valid of the protocol library) *)

SchemaEntry(sensor_id, type_id, value_type, unit) ==
    [sensor_id |-> sensor_id, type_id |-> type_id, value_type |-> value_type,
     unit |-> unit]

\* the (type_id, value_type, unit) combinations the protocol accepts, among
\* those the model draws from
ValidSchemaTable ==
    {<<"TEMPERATURE", "INT", "C">>, <<"TEMPERATURE", "FLOAT", "C">>,
     <<"SWITCH", "BOOL", "NOT_APPLICABLE">>}

\* 0 when valid, an error otherwise
knot_schema_is_valid(type_id, value_type, unit) ==
    IF <<type_id, value_type, unit>> \in ValidSchemaTable THEN 0 ELSE 1

\* schema entries a node or the cloud may send
SchemaEntries ==
    {SchemaEntry(1, "TEMPERATURE", "INT", "C"),
     SchemaEntry(1, "TEMPERATURE", "BOOL", "C"),
     SchemaEntry(2, "SWITCH", "BOOL", "NOT_APPLICABLE")}

---------------------------------------------------------------------------
(* Config validation *)

KNOT_EVT_FLAG_NONE == 0
KNOT_EVT_FLAG_TIME == 1
KNOT_EVT_FLAG_LOWER_THRESHOLD == 2
KNOT_EVT_FLAG_UPPER_THRESHOLD == 4
KNOT_EVT_FLAG_CHANGE == 8
KNOT_EVT_FLAG_UNREGISTERED == 128

RECURSIVE BitAnd(_, _)
BitAnd(a, b) ==
    IF a = 0 \/ b = 0 THEN 0
    ELSE (a % 2) * (b % 2) + 2 * BitAnd(a \div 2, b \div 2)

RECURSIVE BitOr(_, _)
BitOr(a, b) ==
    IF a = 0 THEN b
    ELSE IF b = 0 THEN a
    ELSE (IF a % 2 = 1 \/ b % 2 = 1 THEN 1 ELSE 0) + 2 * BitOr(a \div 2, b \div 2)

\* a value stored into an int of WordBits bits (two's complement)
ToInt(x) ==
    LET m == x % (2 ^ WordBits)
    IN  IF m >= 2 ^ (WordBits - 1) THEN m - 2 ^ WordBits ELSE m

ConfigEntry(sensor_id, event_flags, time_sec, lower_int, lower_dec, upper_int, upper_dec) ==
    [sensor_id |-> sensor_id, event_flags |-> event_flags, time_sec |-> time_sec,
     lower_int |-> lower_int, lower_dec |-> lower_dec,
     upper_int |-> upper_int, upper_dec |-> upper_dec]

\* the range of an int of WordBits bits
FitsInt(x) == -(2 ^ (WordBits - 1)) <= x /\ x < 2 ^ (WordBits - 1)

\* one entry of the loop of config_is_valid: TRUE when no check rejects it.
\* The subtraction of the two value_int is signed: when it overflows the
\* behaviour is undefined, and the build either wraps it (wraps) or compares
\* as if it had not overflowed.
config_entry_ok(config, wraps) ==
    LET allowed == BitOr(KNOT_EVT_FLAG_TIME,
                   BitOr(KNOT_EVT_FLAG_LOWER_THRESHOLD,
                   BitOr(KNOT_EVT_FLAG_UPPER_THRESHOLD,
                   BitOr(KNOT_EVT_FLAG_CHANGE, KNOT_EVT_FLAG_UNREGISTERED))))
        exact == config.upper_int - config.lower_int
        diff_int == IF FitsInt(exact) \/ ~wraps THEN exact ELSE ToInt(exact)
        diff_dec == ToInt((config.upper_dec - config.lower_dec) % (2 ^ WordBits))
    IN  /\ ~(/\ BitOr(config.event_flags, KNOT_EVT_FLAG_NONE) # 0
             /\ BitAnd(config.event_flags, allowed) = 0)
        /\ IF BitAnd(config.event_flags, KNOT_EVT_FLAG_TIME) # 0
           THEN config.time_sec # 0
           ELSE ~(config.time_sec > 0)
        /\ (BitAnd(config.event_flags,
                   BitOr(KNOT_EVT_FLAG_LOWER_THRESHOLD,
                         KNOT_EVT_FLAG_UPPER_THRESHOLD)) # 0)
             => /\ ~(diff_int < 0)
                /\ ~(diff_int = 0 /\ diff_dec <= 0)

\* KNOT_SUCCESS or KNOT_ERROR_UNKNOWN for the whole list; a NULL list has no entries
config_is_valid(config_list, wraps) ==
    IF \A i \in 1..Len(config_list.entries) :
          config_entry_ok(config_list.entries[i], wraps)
    THEN "SUCCESS" ELSE "ERROR_UNKNOWN"

\* config lists proto_signin may hand back
SigninConfigs ==
    {NullQueue,
     Queue(<<ConfigEntry(1, 1, 10, 0, 0, 0, 0), ConfigEntry(2, 6, 0, 1, 5, 2, 0),
             ConfigEntry(1, 8, 0, 0, 0, 0, 0)>>),
     Queue(<<ConfigEntry(1, 1, 0, 0, 0, 0, 0)>>)}

\* schema lists proto_signin may hand back: no list, a list without entries,
\* lists with entries
SigninSchemas ==
    {NullQueue, l_queue_new,
     Queue(<<SchemaEntry(1, "TEMPERATURE", "INT", "C")>>),
     Queue(<<SchemaEntry(1, "TEMPERATURE", "BOOL", "C"),
             SchemaEntry(2, "SWITCH", "BOOL", "NOT_APPLICABLE")>>)}

---------------------------------------------------------------------------
(* Handlers.  Each yields the heap and the trust map it leaves, its result,  *)
(* the cloud calls it made in order, and what it wrote to the reply PDU:     *)
(* plen is krsp->hdr.payload_len, cred the credential copied into it.        *)

NoCred == [uuid |-> "", token |-> ""]

Call(op, uuid, token, sensor_id, result) ==
    [op |-> op, uuid |-> uuid, token |-> token, sensor_id |-> sensor_id,
     result |-> result]

Out(h, map, result, calls, cred, plen) ==
    [heap |-> h, map |-> map, result |-> result, calls |-> calls, cred |-> cred,
     plen |-> plen]

msg_register_has_valid_length(ilen) == ilen > SizeofHeader + SizeofId

\* msg_register_has_valid_device_name gone wrong: any first byte is a name
msg_register_has_valid_device_name_any(kreq) == TRUE

msg_register_has_valid_device_name(kreq) == kreq.devName0 # 0

\* payload_len written by msg_credential_create
msg_credential_create == SizeofResult + KNOT_PROTOCOL_UUID_LEN + KNOT_PROTOCOL_TOKEN_LEN

\* msg_register gone wrong: the result of proto_signin is not looked at
msg_register_signin_unchecked(h, map, node_socket, kreq, ilen, cloud, plen) ==
    IF ~msg_register_has_valid_length(ilen) \/ ~msg_register_has_valid_device_name(kreq)
    THEN Out(h, map, "REGISTER_INVALID_DEVICENAME", <<>>, NoCred, plen)
    ELSE
    LET trust == l_hashmap_lookup(map, node_socket) IN
    IF trust # NULL /\ kreq.id = h[trust].id /\ h[trust].pid = cloud.pid
    THEN Out(h, map, "SUCCESS", <<>>,
             [uuid |-> h[trust].uuid, token |-> h[trust].token], msg_credential_create)
    ELSE
    LET mknode == Call("mknode", cloud.mk_uuid, cloud.mk_token, 0, cloud.mknode) IN
    IF cloud.mknode # "SUCCESS"
    THEN Out(h, map, cloud.mknode, <<mknode>>, NoCred, plen)
    ELSE
    LET signin == Call("signin", cloud.mk_uuid, cloud.mk_token, 0, cloud.signin)
        h2 == trust_new(h, cloud.mk_uuid, cloud.mk_token, kreq.id,
                        IF cloud.pid # 0 THEN cloud.pid ELSE INT32_MAX,
                        TRUE, NullQueue, NullQueue)
    IN  Out(h2, l_hashmap_insert(map, node_socket, Len(h2)), "SUCCESS",
            <<mknode, signin>>,
            [uuid |-> cloud.mk_uuid, token |-> cloud.mk_token], msg_credential_create)

\* cloud.pid is cred.pid as get_socket_credentials leaves it
msg_register(h, map, node_socket, kreq, ilen, cloud, plen) ==
    IF ~msg_register_has_valid_length(ilen) \/ ~msg_register_has_valid_device_name(kreq)
    THEN Out(h, map, "REGISTER_INVALID_DEVICENAME", <<>>, NoCred, plen)
    ELSE
    LET trust == l_hashmap_lookup(map, node_socket) IN
    IF trust # NULL /\ kreq.id = h[trust].id /\ h[trust].pid = cloud.pid
    THEN Out(h, map, "SUCCESS", <<>>,
             [uuid |-> h[trust].uuid, token |-> h[trust].token], msg_credential_create)
    ELSE
    LET mknode == Call("mknode", cloud.mk_uuid, cloud.mk_token, 0, cloud.mknode) IN
    IF cloud.mknode # "SUCCESS"
    THEN Out(h, map, cloud.mknode, <<mknode>>, NoCred, plen)
    ELSE
    LET signin == Call("signin", cloud.mk_uuid, cloud.mk_token, 0, cloud.signin) IN
    IF cloud.signin # "SUCCESS"
    THEN Out(h, map, cloud.signin, <<mknode, signin>>, NoCred, plen)
    ELSE
    LET h2 == trust_new(h, cloud.mk_uuid, cloud.mk_token, kreq.id,
                        IF cloud.pid # 0 THEN cloud.pid ELSE INT32_MAX,
                        TRUE, NullQueue, NullQueue)
    IN  Out(h2, l_hashmap_insert(map, node_socket, Len(h2)), "SUCCESS",
            <<mknode, signin>>,
            [uuid |-> cloud.mk_uuid, token |-> cloud.mk_token], msg_credential_create)

msg_unregister(h, map, node_socket, cloud, plen) ==
    LET trust == l_hashmap_lookup(map, node_socket)
        map2 == l_hashmap_remove(map, node_socket)
    IN
    IF trust = NULL
    THEN Out(h, map2, "CREDENTIAL_UNAUTHORIZED", <<>>, NoCred, plen)
    ELSE
    LET rmnode == Call("rmnode", h[trust].uuid, h[trust].token, 0, cloud.rmnode) IN
    IF cloud.rmnode # "SUCCESS"
    THEN Out(h, map2, cloud.rmnode, <<rmnode>>, NoCred, plen)
    ELSE Out(trust_unref(h, trust), map2, "SUCCESS", <<rmnode>>, NoCred, plen)

\* msg_auth gone wrong: the config is given to the trust whatever config_is_valid says
msg_auth_config_kept(h, map, node_socket, kmauth, cloud, plen) ==
    LET trust == l_hashmap_lookup(map, node_socket) IN
    IF trust # NULL
    THEN Out(h, map, "SUCCESS", <<>>, NoCred, plen)
    ELSE
    LET signin == Call("signin", kmauth.uuid, kmauth.token, 0, cloud.signin) IN
    IF cloud.signin # "SUCCESS"
    THEN Out(h, map, cloud.signin, <<signin>>, NoCred, plen)
    ELSE IF ~cloud.schema.alloc
    THEN Out(h, map, "SCHEMA_EMPTY", <<signin>>, NoCred, plen)
    ELSE
    LET h2 == trust_new(h, kmauth.uuid, kmauth.token, 0, 0, FALSE, cloud.schema,
                        cloud.config)
    IN  Out(h2, l_hashmap_insert(map, node_socket, Len(h2)), "SUCCESS", <<signin>>,
            NoCred, plen)

\* msg_auth gone wrong: a trust with another uuid does not count as authenticated
msg_auth_recheck(h, map, node_socket, kmauth, cloud, plen) ==
    LET trust == l_hashmap_lookup(map, node_socket) IN
    IF trust # NULL /\ h[trust].uuid = kmauth.uuid
    THEN Out(h, map, "SUCCESS", <<>>, NoCred, plen)
    ELSE
    LET signin == Call("signin", kmauth.uuid, kmauth.token, 0, cloud.signin) IN
    IF cloud.signin # "SUCCESS"
    THEN Out(h, map, cloud.signin, <<signin>>, NoCred, plen)
    ELSE IF ~cloud.schema.alloc
    THEN Out(h, map, "SCHEMA_EMPTY", <<signin>>, NoCred, plen)
    ELSE
    LET config == IF config_is_valid(cloud.config, cloud.wraps) # "SUCCESS"
                  THEN NullQueue ELSE cloud.config
        h2 == trust_new(h, kmauth.uuid, kmauth.token, 0, 0, FALSE, cloud.schema, config)
    IN  Out(h2, l_hashmap_insert(map, node_socket, Len(h2)), "SUCCESS", <<signin>>,
            NoCred, plen)

msg_auth(h, map, node_socket, kmauth, cloud, plen) ==
    LET trust == l_hashmap_lookup(map, node_socket) IN
    IF trust # NULL
    THEN Out(h, map, "SUCCESS", <<>>, NoCred, plen)
    ELSE
    LET signin == Call("signin", kmauth.uuid, kmauth.token, 0, cloud.signin) IN
    IF cloud.signin # "SUCCESS"
    THEN Out(h, map, cloud.signin, <<signin>>, NoCred, plen)
    ELSE IF ~cloud.schema.alloc
    THEN Out(h, map, "SCHEMA_EMPTY", <<signin>>, NoCred, plen)
    ELSE
    LET config == IF config_is_valid(cloud.config, cloud.wraps) # "SUCCESS"
                  THEN NullQueue ELSE cloud.config
        h2 == trust_new(h, kmauth.uuid, kmauth.token, 0, 0, FALSE, cloud.schema, config)
    IN  Out(h2, l_hashmap_insert(map, node_socket, Len(h2)), "SUCCESS", <<signin>>,
            NoCred, plen)

msg_schema(h, map, node_socket, schema, eof, cloud, plen) ==
    LET trust == l_hashmap_lookup(map, node_socket) IN
    IF trust = NULL
    THEN Out(h, map, "CREDENTIAL_UNAUTHORIZED", <<>>, NoCred, plen)
    ELSE
    LET t1 == [h[trust] EXCEPT !.rollback = FALSE]
        t2 == IF trust_get_sensor_schema_tmp(t1, schema.sensor_id) = NullEntry
              THEN trust_sensor_schema_tmp_add(t1, schema)
              ELSE t1
    IN
    IF ~eof
    THEN Out([h EXCEPT ![trust] = t2], map, "SUCCESS", <<>>, NoCred, plen)
    ELSE
    LET submit == Call("schema", t2.uuid, t2.token, 0, cloud.schema_result) IN
    IF cloud.schema_result # "SUCCESS"
    THEN Out([h EXCEPT ![trust] = trust_sensor_schema_tmp_free(t2)], map,
             cloud.schema_result, <<submit>>, NoCred, plen)
    ELSE Out([h EXCEPT ![trust] = trust_sensor_schema_complete(t2)], map,
             "SUCCESS", <<submit>>, NoCred, plen)

\* msg_data gone wrong: the result of proto_getdata overwrites that of proto_data
msg_data_pull_result(h, map, node_socket, kmdata, cloud, plen) ==
    LET trust == l_hashmap_lookup(map, node_socket) IN
    IF trust = NULL
    THEN Out(h, map, "CREDENTIAL_UNAUTHORIZED", <<>>, NoCred, plen)
    ELSE
    LET sensor_id == kmdata.sensor_id
        schema == trust_get_sensor_schema(h[trust], sensor_id)
    IN
    IF schema = NullEntry
    THEN Out(h, map, "INVALID_DATA", <<>>, NoCred, plen)
    ELSE
    IF knot_schema_is_valid(schema.type_id, schema.value_type, schema.unit) # 0
    THEN Out(h, map, "INVALID_DATA", <<>>, NoCred, plen)
    ELSE Out(h, map, cloud.getdata,
             <<Call("data", h[trust].uuid, h[trust].token, sensor_id, cloud.data),
               Call("getdata", h[trust].uuid, h[trust].token, sensor_id, cloud.getdata)>>,
             NoCred, plen)

msg_data(h, map, node_socket, kmdata, cloud, plen) ==
    LET trust == l_hashmap_lookup(map, node_socket) IN
    IF trust = NULL
    THEN Out(h, map, "CREDENTIAL_UNAUTHORIZED", <<>>, NoCred, plen)
    ELSE
    LET sensor_id == kmdata.sensor_id
        schema == trust_get_sensor_schema(h[trust], sensor_id)
    IN
    IF schema = NullEntry
    THEN Out(h, map, "INVALID_DATA", <<>>, NoCred, plen)
    ELSE
    IF knot_schema_is_valid(schema.type_id, schema.value_type, schema.unit) # 0
    THEN Out(h, map, "INVALID_DATA", <<>>, NoCred, plen)
    ELSE Out(h, map, cloud.data,
             <<Call("data", h[trust].uuid, h[trust].token, sensor_id, cloud.data),
               Call("getdata", h[trust].uuid, h[trust].token, sensor_id, cloud.getdata)>>,
             NoCred, plen)

msg_config_resp(h, map, node_socket, response, plen) ==
    LET trust == l_hashmap_lookup(map, node_socket) IN
    IF trust = NULL
    THEN Out(h, map, "CREDENTIAL_UNAUTHORIZED", <<>>, NoCred, plen)
    ELSE Out([h EXCEPT ![trust].config = l_queue_remove_if(@, response.sensor_id)],
             map, "SUCCESS", <<>>, NoCred, plen)

\* msg_setdata_resp gone wrong: proto_data is called before proto_setdata
msg_setdata_resp_push_first(h, map, node_socket, kmdata, cloud, plen) ==
    LET trust == l_hashmap_lookup(map, node_socket) IN
    IF trust = NULL
    THEN Out(h, map, "CREDENTIAL_UNAUTHORIZED", <<>>, NoCred, plen)
    ELSE
    LET sensor_id == kmdata.sensor_id
        schema == trust_get_sensor_schema(h[trust], sensor_id)
    IN
    IF schema = NullEntry
    THEN Out(h, map, "INVALID_DATA", <<>>, NoCred, plen)
    ELSE
    IF knot_schema_is_valid(schema.type_id, schema.value_type, schema.unit) # 0
    THEN Out(h, map, "INVALID_DATA", <<>>, NoCred, plen)
    ELSE Out(h, map, cloud.data,
             <<Call("data", h[trust].uuid, h[trust].token, sensor_id, cloud.data),
               Call("setdata", h[trust].uuid, h[trust].token, sensor_id, cloud.setdata)>>,
             NoCred, plen)

msg_setdata_resp(h, map, node_socket, kmdata, cloud, plen) ==
    LET trust == l_hashmap_lookup(map, node_socket) IN
    IF trust = NULL
    THEN Out(h, map, "CREDENTIAL_UNAUTHORIZED", <<>>, NoCred, plen)
    ELSE
    LET sensor_id == kmdata.sensor_id
        schema == trust_get_sensor_schema(h[trust], sensor_id)
    IN
    IF schema = NullEntry
    THEN Out(h, map, "INVALID_DATA", <<>>, NoCred, plen)
    ELSE
    IF knot_schema_is_valid(schema.type_id, schema.value_type, schema.unit) # 0
    THEN Out(h, map, "INVALID_DATA", <<>>, NoCred, plen)
    ELSE Out(h, map, cloud.data,
             <<Call("setdata", h[trust].uuid, h[trust].token, sensor_id, cloud.setdata),
               Call("data", h[trust].uuid, h[trust].token, sensor_id, cloud.data)>>,
             NoCred, plen)

---------------------------------------------------------------------------
(* msg_process *)

\* a request PDU: the header and the fields of the body its handler reads
Pdu(type, payload_len, id, devName0, uuid, token, schema, sensor_id) ==
    [type |-> type, payload_len |-> payload_len, id |-> id, devName0 |-> devName0,
     uuid |-> uuid, token |-> token, schema |-> schema, sensor_id |-> sensor_id]

\* what is outside msg.c during one msg_process: the answers of the peer lookup
\* and of each cloud operation, and whether a signed overflow wraps
Cloud(pid, mknode, mk_uuid, mk_token, signin, schema, config, rmnode, schema_result, data, getdata, setdata, wraps) ==
    [wraps |-> wraps, pid |-> pid, mknode |-> mknode, mk_uuid |-> mk_uuid, mk_token |-> mk_token,
     signin |-> signin, schema |-> schema, config |-> config, rmnode |-> rmnode,
     schema_result |-> schema_result, data |-> data, getdata |-> getdata,
     setdata |-> setdata]

NoSchema == SchemaEntry(0, "", "", "")

\* the reply of msg_process: ret is its return value, rtype/result/plen/cred
\* what the reply PDU holds when ret > 0
Reply(o, ret, rtype) ==
    [heap |-> o.heap, map |-> o.map, ret |-> ret, rtype |-> rtype,
     result |-> o.result, plen |-> o.plen, cred |-> o.cred, calls |-> o.calls]

\* msg_dispatch gone wrong: rtype is not changed for SCHEMA_END
msg_dispatch_schema_resp(h, map, sock, kreq, ilen, cloud) ==
    LET plen == SizeofResult
        sent(o, rtype) == Reply(o, SizeofHeader + o.plen, rtype)
    IN
    CASE kreq.type = "REGISTER_REQ" ->
            sent(msg_register(h, map, sock, kreq, ilen, cloud, plen), "REGISTER_RESP")
      [] kreq.type = "UNREGISTER_REQ" ->
            sent(msg_unregister(h, map, sock, cloud, plen), "UNREGISTER_RESP")
      [] kreq.type = "DATA" ->
            sent(msg_data(h, map, sock, kreq, cloud, plen), "DATA_RESP")
      [] kreq.type = "AUTH_REQ" ->
            sent(msg_auth(h, map, sock, kreq, cloud, plen), "AUTH_RESP")
      [] kreq.type \in {"SCHEMA", "SCHEMA_END"} ->
            sent(msg_schema(h, map, sock, kreq.schema, kreq.type = "SCHEMA_END",
                            cloud, plen),
                 "SCHEMA_RESP")
      [] kreq.type = "CONFIG_RESP" ->
            Reply(msg_config_resp(h, map, sock, kreq, plen), 0, "NONE")
      [] kreq.type = "DATA_RESP" ->
            Reply(msg_setdata_resp(h, map, sock, kreq, cloud, plen), 0, "NONE")
      [] OTHER ->
            sent(Out(h, map, "INVALID_DATA", <<>>, NoCred, plen), "0")

\* the switch on kreq->hdr.type and the reply assembly
msg_dispatch(h, map, sock, kreq, ilen, cloud) ==
    LET plen == SizeofResult
        sent(o, rtype) == Reply(o, SizeofHeader + o.plen, rtype)
    IN
    CASE kreq.type = "REGISTER_REQ" ->
            sent(msg_register(h, map, sock, kreq, ilen, cloud, plen), "REGISTER_RESP")
      [] kreq.type = "UNREGISTER_REQ" ->
            sent(msg_unregister(h, map, sock, cloud, plen), "UNREGISTER_RESP")
      [] kreq.type = "DATA" ->
            sent(msg_data(h, map, sock, kreq, cloud, plen), "DATA_RESP")
      [] kreq.type = "AUTH_REQ" ->
            sent(msg_auth(h, map, sock, kreq, cloud, plen), "AUTH_RESP")
      [] kreq.type \in {"SCHEMA", "SCHEMA_END"} ->
            LET eof == kreq.type = "SCHEMA_END" IN
            sent(msg_schema(h, map, sock, kreq.schema, eof, cloud, plen),
                 IF eof THEN "SCHEMA_END_RESP" ELSE "SCHEMA_RESP")
      [] kreq.type = "CONFIG_RESP" ->
            Reply(msg_config_resp(h, map, sock, kreq, plen), 0, "NONE")
      [] kreq.type = "DATA_RESP" ->
            Reply(msg_setdata_resp(h, map, sock, kreq, cloud, plen), 0, "NONE")
      [] OTHER ->
            sent(Out(h, map, "INVALID_DATA", <<>>, NoCred, plen), "0")

\* -EINVAL: nothing is written but the default payload_len
msg_reject(h, map) ==
    Reply(Out(h, map, "NONE", <<>>, NoCred, SizeofResult), -EINVAL, "NONE")

\* msg_process gone wrong: the length of the PDU is not held against payload_len
msg_process_unchecked(h, map, sock, kreq, ilen, omtu_ok, cloud) ==
    IF ~omtu_ok THEN msg_reject(h, map)
    ELSE IF ilen < SizeofHeader THEN msg_reject(h, map)
    ELSE msg_dispatch(h, map, sock, kreq, ilen, cloud)

msg_process(h, map, sock, kreq, ilen, omtu_ok, cloud) ==
    IF ~omtu_ok THEN msg_reject(h, map)
    ELSE IF ilen < SizeofHeader THEN msg_reject(h, map)
    ELSE IF ilen # SizeofHeader + kreq.payload_len THEN msg_reject(h, map)
    ELSE msg_dispatch(h, map, sock, kreq, ilen, cloud)

msg_start == l_hashmap_new

\* l_hashmap_destroy with trust_unref as destructor: every entry, in order
RECURSIVE msg_stop(_, _)
msg_stop(h, map) ==
    IF map = <<>> THEN h ELSE msg_stop(trust_unref(h, Head(map).value), Tail(map))

---------------------------------------------------------------------------
(* The state machine *)

NoLast ==
    [sock |-> 0, type |-> "NONE", payload_len |-> 0, ilen |-> 0, omtu_ok |-> TRUE,
     id |-> 0, devName0 |-> 0, pid |-> 0, sensor_id |-> 0, trust |-> NULL, ret |-> 0,
     rtype |-> "NONE", result |-> "NONE", plen |-> 0, cred |-> NoCred,
     calls |-> <<>>, received |-> <<>>, uuid |-> "", token |-> "",
     schema_list |-> NullQueue,
     config_list |-> NullQueue]

\* no handler is waiting in a cloud call
NoHandler ==
    [handler |-> "NONE", sock |-> 0, trust |-> NULL, sensor_id |-> 0, at |-> "NONE"]

Init ==
    /\ suspended = NoHandler
    /\ heap = <<>>
    /\ trust_map = msg_start
    /\ transfer = <<>>
    /\ last = NoLast
    /\ npdu = 0
    /\ stopped = FALSE

\* msg_process may be called: the service runs and the run is not at its bound
Ready == ~stopped /\ npdu < MaxPdus /\ suspended.handler # "UNDEFINED"

\* one call of msg_process on socket sock
Step(sock, kreq, ilen, omtu_ok, cloud) ==
    \E r \in {msg_process(heap, trust_map, sock, kreq, ilen, omtu_ok, cloud)},
       trust \in {l_hashmap_lookup(trust_map, sock)} :
    LET dispatched == r.ret >= 0
        \* proto_signin of msg_auth filled in its schema and config
        given == /\ kreq.type = "AUTH_REQ"
                 /\ \E i \in 1..Len(r.calls) :
                       r.calls[i].op = "signin" /\ r.calls[i].result = "SUCCESS"
        isSchema == dispatched /\ kreq.type \in {"SCHEMA", "SCHEMA_END"} /\ trust # NULL
        received == IF isSchema THEN Append(transfer[trust], kreq.schema) ELSE <<>>
        grown == transfer \o [i \in 1..(Len(r.heap) - Len(heap)) |-> <<>>]
    IN  /\ Len(r.heap) <= MaxTrusts
        /\ heap' = r.heap
        /\ trust_map' = r.map
        /\ transfer' = IF isSchema
                       THEN [grown EXCEPT ![trust] =
                                IF kreq.type = "SCHEMA_END" THEN <<>> ELSE received]
                       ELSE grown
        /\ last' = [sock |-> IF dispatched THEN sock ELSE 0, type |-> kreq.type, payload_len |-> kreq.payload_len,
                    ilen |-> ilen, omtu_ok |-> omtu_ok,
                    id |-> IF dispatched THEN kreq.id ELSE 0,
                    devName0 |-> IF dispatched THEN kreq.devName0 ELSE 0,
                    pid |-> IF dispatched /\ kreq.type = "REGISTER_REQ"
                            THEN cloud.pid ELSE 0,
                    sensor_id |-> IF dispatched THEN kreq.sensor_id ELSE 0,
                    trust |-> IF dispatched THEN trust ELSE NULL, ret |-> r.ret, rtype |-> r.rtype,
                    result |-> r.result, plen |-> r.plen, cred |-> r.cred,
                    calls |-> r.calls, received |-> received,
                    uuid |-> IF dispatched /\ kreq.type = "AUTH_REQ"
                             THEN kreq.uuid ELSE "",
                    token |-> IF dispatched /\ kreq.type = "AUTH_REQ"
                              THEN kreq.token ELSE "",
                    schema_list |-> IF given THEN cloud.schema ELSE NullQueue,
                    config_list |-> IF given THEN cloud.config ELSE NullQueue]
        /\ npdu' = npdu + 1
        /\ UNCHANGED <<stopped, suspended>>

\* answers of the cloud that a handler does not ask for
Quiet == Cloud(0, "SUCCESS", "", "", "SUCCESS", NullQueue, NullQueue, "SUCCESS",
               "SUCCESS", "SUCCESS", "SUCCESS", "SUCCESS", TRUE)

\* S when the input is read, a fixed value when nothing reads it
Only(read, S, unread) == IF read THEN S ELSE {unread}

\* the PDU passes the length checks of msg_process and reaches its handler
Dispatched(sock, type, shape) ==
    msg_process(heap, trust_map, sock,
                Pdu(type, shape.payload_len, 0, 0, "", "", NoSchema, 0),
                shape.ilen, shape.omtu_ok, Quiet).ret >= 0

\* the cloud operations the handler calls when every answer is SUCCESS: a
\* failure only cuts the sequence short
Asked(sock, kreq, shape, pid) ==
    LET r == msg_process(heap, trust_map, sock, kreq, shape.ilen, shape.omtu_ok,
                         [Quiet EXCEPT !.pid = pid])
    IN  {r.calls[i].op : i \in 1..Len(r.calls)}

Answers(op, asked) == Only(op \in asked, CloudResults, "SUCCESS")

RegisterReq ==
    Ready /\
    \E sock \in Socks, shape \in RegisterShapes :
    LET live == /\ Dispatched(sock, "REGISTER_REQ", shape)
                /\ msg_register_has_valid_length(shape.ilen)
    IN
    \E id \in Only(live, DeviceIds, 0), devName0 \in Only(live, NameBytes, 0) :
    LET kreq == Pdu("REGISTER_REQ", shape.payload_len, id, devName0, "", "", NoSchema, 0)
        named == live /\ msg_register_has_valid_device_name(kreq)
    IN
    \E pid \in Only(named, Pids, 0) :
    LET asked == Asked(sock, kreq, shape, pid) IN
    \E mknode \in Answers("mknode", asked) :
    \E mk \in Only("mknode" \in asked /\ mknode = "SUCCESS", Creds, NoCred),
       signin \in Only(mknode = "SUCCESS", Answers("signin", asked), "SUCCESS") :
        Step(sock, kreq, shape.ilen, shape.omtu_ok,
             [Quiet EXCEPT !.pid = pid, !.mknode = mknode, !.mk_uuid = mk.uuid,
                           !.mk_token = mk.token, !.signin = signin])

UnregisterReq ==
    Ready /\
    \E sock \in Socks, shape \in Shapes :
    LET kreq == Pdu("UNREGISTER_REQ", shape.payload_len, 0, 0, "", "", NoSchema, 0) IN
    \E rmnode \in Answers("rmnode", Asked(sock, kreq, shape, 0)) :
        Step(sock, kreq, shape.ilen, shape.omtu_ok, [Quiet EXCEPT !.rmnode = rmnode])

Data ==
    Ready /\
    \E sock \in Socks, shape \in Shapes :
    \E sensor_id \in Only(Dispatched(sock, "DATA", shape), SensorIds, 0) :
    LET kreq == Pdu("DATA", shape.payload_len, 0, 0, "", "", NoSchema, sensor_id)
        asked == Asked(sock, kreq, shape, 0)
    IN
    \E data \in Answers("data", asked), getdata \in Answers("getdata", asked) :
        Step(sock, kreq, shape.ilen, shape.omtu_ok,
             [Quiet EXCEPT !.data = data, !.getdata = getdata])

AuthReq ==
    Ready /\
    \E sock \in Socks, shape \in Shapes :
    \E cred \in Only(Dispatched(sock, "AUTH_REQ", shape), Creds, NoCred) :
    LET kreq == Pdu("AUTH_REQ", shape.payload_len, 0, 0, cred.uuid, cred.token,
                    NoSchema, 0)
        asked == Asked(sock, kreq, shape, 0)
    IN
    \E signin \in Answers("signin", asked) :
    LET given == "signin" \in asked /\ signin = "SUCCESS" IN
    \E schema \in Only(given, SigninSchemas, NullQueue) :
    \E config \in Only(given, SigninConfigs, NullQueue), wraps \in Only(given, BOOLEAN, TRUE) :
        Step(sock, kreq, shape.ilen, shape.omtu_ok,
             [Quiet EXCEPT !.signin = signin, !.schema = schema, !.config = config,
                           !.wraps = wraps])

Schema ==
    Ready /\
    \E sock \in Socks, shape \in Shapes :
    \E schema \in Only(Dispatched(sock, "SCHEMA", shape), SchemaEntries, NoSchema) :
        Step(sock, Pdu("SCHEMA", shape.payload_len, 0, 0, "", "", schema,
                       schema.sensor_id),
             shape.ilen, shape.omtu_ok, Quiet)

SchemaEnd ==
    Ready /\
    \E sock \in Socks, shape \in Shapes :
    \E schema \in Only(Dispatched(sock, "SCHEMA_END", shape), SchemaEntries, NoSchema) :
    LET kreq == Pdu("SCHEMA_END", shape.payload_len, 0, 0, "", "", schema,
                    schema.sensor_id)
    IN
    \E schema_result \in Answers("schema", Asked(sock, kreq, shape, 0)) :
        Step(sock, kreq, shape.ilen, shape.omtu_ok,
             [Quiet EXCEPT !.schema_result = schema_result])

ConfigResp ==
    Ready /\
    \E sock \in Socks, shape \in Shapes :
    \E sensor_id \in Only(Dispatched(sock, "CONFIG_RESP", shape), SensorIds, 0) :
        Step(sock, Pdu("CONFIG_RESP", shape.payload_len, 0, 0, "", "", NoSchema,
                       sensor_id),
             shape.ilen, shape.omtu_ok, Quiet)

DataResp ==
    Ready /\
    \E sock \in Socks, shape \in Shapes :
    \E sensor_id \in Only(Dispatched(sock, "DATA_RESP", shape), SensorIds, 0) :
    LET kreq == Pdu("DATA_RESP", shape.payload_len, 0, 0, "", "", NoSchema, sensor_id)
        asked == Asked(sock, kreq, shape, 0)
    IN
    \E setdata \in Answers("setdata", asked), data \in Answers("data", asked) :
        Step(sock, kreq, shape.ilen, shape.omtu_ok,
             [Quiet EXCEPT !.setdata = setdata, !.data = data])

UnknownType ==
    Ready /\
    \E sock \in Socks, shape \in Shapes :
        Step(sock, Pdu("UNKNOWN", shape.payload_len, 0, 0, "", "", NoSchema, 0),
             shape.ilen, shape.omtu_ok, Quiet)

\* msg_stop: neither l_hashmap_destroy nor trust_unref calls a cloud operation,
\* the calls of the step are none
MsgStop ==
    /\ ~stopped
    /\ suspended.handler # "UNDEFINED"
    /\ heap' = msg_stop(heap, trust_map)
    /\ trust_map' = <<>>
    /\ stopped' = TRUE
    /\ transfer' = <<>>
    /\ last' = [NoLast EXCEPT !.type = "STOP"]
    /\ UNCHANGED <<npdu, suspended>>

Next ==
    \/ RegisterReq
    \/ UnregisterReq
    \/ Data
    \/ AuthReq
    \/ Schema
    \/ SchemaEnd
    \/ ConfigResp
    \/ DataResp
    \/ UnknownType
    \/ MsgStop

Spec == Init /\ [][Next]_vars

---------------------------------------------------------------------------
(* config_is_valid over the ranges of its fields: the first PDU of a run is *)
(* an AUTH_REQ and proto_signin hands back one config entry.                *)

IntMin == -(2 ^ (WordBits - 1))
IntMax == 2 ^ (WordBits - 1) - 1
UintMax == 2 ^ WordBits - 1

\* every value of the uint8_t event_flags
EventFlags == 0..255

\* value_int and value_dec at the ends and in the middle of their ranges
LimitInts == {IntMin, -1, 0, 1, IntMax}
LimitDecs == {0, 1, IntMax, IntMax + 1, UintMax}

\* one entry with every event_flags and limits in order, or with threshold
\* flags and every pair of limits
WideConfigs ==
    {Queue(<<ConfigEntry(1, f, t, 0, 0, 1, 0)>>) : f \in EventFlags, t \in {0, 1}}
    \cup
    {Queue(<<ConfigEntry(1, f, 0, l[1], l[2], u[1], u[2])>>) :
        f \in {KNOT_EVT_FLAG_LOWER_THRESHOLD, KNOT_EVT_FLAG_UPPER_THRESHOLD,
                KNOT_EVT_FLAG_LOWER_THRESHOLD + KNOT_EVT_FLAG_UPPER_THRESHOLD},
        l \in LimitInts \X LimitDecs, u \in LimitInts \X LimitDecs}

AuthConfig ==
    Ready /\ npdu = 0 /\
    \E sock \in Socks, cred \in Creds, config \in WideConfigs, wraps \in BOOLEAN :
        Step(sock, Pdu("AUTH_REQ", 9, 0, 0, cred.uuid, cred.token, NoSchema, 0), 11, TRUE,
             [Quiet EXCEPT !.schema = Queue(<<SchemaEntry(1, "TEMPERATURE", "INT", "C")>>),
                           !.config = config, !.wraps = wraps])

ConfigNext == AuthConfig

ConfigSpec == Init /\ [][ConfigNext]_vars

\* ---------------------------------------------------------------------------
\* Third specification: one handler is followed through its cloud calls. Each
\* proto_* call of msg_data, msg_setdata_resp and msg_schema is a point where
\* the handler waits and the PDUs of Next and msg_stop may run; the handler
\* carries the pointer it got from l_hashmap_lookup, as the locals of the C
\* function do.

\* the handler read or wrote a trust that was freed: the behaviour of the
\* program is undefined from here on and no further step is modelled
Undefined == [suspended EXCEPT !.handler = "UNDEFINED"]

\* msg_data up to its call of proto_data
DataSuspend ==
    Ready /\ suspended.handler = "NONE" /\
    \E sock \in Socks, sensor_id \in SensorIds :
    LET trust == l_hashmap_lookup(trust_map, sock)
        schema == trust_get_sensor_schema(heap[trust], sensor_id)
    IN
    /\ trust # NULL
    /\ schema # NullEntry
    /\ knot_schema_is_valid(schema.type_id, schema.value_type, schema.unit) = 0
    /\ suspended' = [handler |-> "msg_data", sock |-> sock, trust |-> trust,
                      sensor_id |-> sensor_id, at |-> "proto_data"]
    /\ npdu' = npdu + 1
    /\ UNCHANGED <<heap, trust_map, transfer, last, stopped>>

\* msg_data from the return of a cloud call: proto_getdata is given trust->uuid
\* and trust->token, nothing is read after proto_getdata
DataResume ==
    /\ suspended.handler = "msg_data"
    /\ suspended' = IF suspended.at = "proto_data"
                     THEN IF heap[suspended.trust].freed
                          THEN Undefined
                          ELSE [suspended EXCEPT !.at = "proto_getdata"]
                     ELSE NoHandler
    /\ UNCHANGED <<heap, trust_map, transfer, last, npdu, stopped>>

\* msg_setdata_resp up to its call of proto_setdata
SetdataSuspend ==
    Ready /\ suspended.handler = "NONE" /\
    \E sock \in Socks, sensor_id \in SensorIds :
    LET trust == l_hashmap_lookup(trust_map, sock)
        schema == trust_get_sensor_schema(heap[trust], sensor_id)
    IN
    /\ trust # NULL
    /\ schema # NullEntry
    /\ knot_schema_is_valid(schema.type_id, schema.value_type, schema.unit) = 0
    /\ suspended' = [handler |-> "msg_setdata_resp", sock |-> sock,
                      trust |-> trust, sensor_id |-> sensor_id,
                      at |-> "proto_setdata"]
    /\ npdu' = npdu + 1
    /\ UNCHANGED <<heap, trust_map, transfer, last, stopped>>

\* msg_setdata_resp from the return of a cloud call: proto_data is given
\* trust->uuid and trust->token, and after a successful proto_data the log line
\* reads trust->uuid
SetdataResume ==
    /\ suspended.handler = "msg_setdata_resp"
    /\ \E result \in CloudResults :
        suspended' = IF suspended.at = "proto_setdata"
                     THEN IF heap[suspended.trust].freed
                          THEN Undefined
                          ELSE [suspended EXCEPT !.at = "proto_data"]
                     ELSE IF result = "SUCCESS" /\ heap[suspended.trust].freed
                          THEN Undefined
                          ELSE NoHandler
    /\ UNCHANGED <<heap, trust_map, transfer, last, npdu, stopped>>

\* msg_schema with eof up to its call of proto_schema
SchemaSuspend ==
    Ready /\ suspended.handler = "NONE" /\
    \E sock \in Socks, schema \in SchemaEntries :
    LET trust == l_hashmap_lookup(trust_map, sock) IN
    /\ trust # NULL
    /\ heap' = msg_schema(heap, trust_map, sock, schema, FALSE, Quiet, 0).heap
    /\ suspended' = [handler |-> "msg_schema", sock |-> sock, trust |-> trust,
                      sensor_id |-> schema.sensor_id, at |-> "proto_schema"]
    /\ npdu' = npdu + 1
    /\ UNCHANGED <<trust_map, transfer, last, stopped>>

\* msg_schema from the return of proto_schema: the staged list of the trust is
\* dropped or committed
SchemaResume ==
    /\ suspended.handler = "msg_schema"
    /\ \E result \in CloudResults :
        LET trust == suspended.trust IN
        IF heap[trust].freed
        THEN suspended' = Undefined /\ UNCHANGED heap
        ELSE /\ suspended' = NoHandler
             /\ heap' = [heap EXCEPT ![trust] =
                            IF result # "SUCCESS"
                            THEN trust_sensor_schema_tmp_free(heap[trust])
                            ELSE trust_sensor_schema_complete(heap[trust])]
    /\ UNCHANGED <<trust_map, transfer, last, npdu, stopped>>

InterleavedNext ==
    \/ Next
    \/ DataSuspend
    \/ DataResume
    \/ SetdataSuspend
    \/ SetdataResume
    \/ SchemaSuspend
    \/ SchemaResume

InterleavedSpec == Init /\ [][InterleavedNext]_vars

---------------------------------------------------------------------------
(* Properties *)

\* a step of the state machine that is one call of msg_process
Processed == npdu' = npdu + 1

\* the PDU of the last call reached its handler
Handled == last.type \notin {"NONE", "STOP"} /\ last.ret >= 0

\* some entry of the map has this key / this key and this trust
Bound(map, key) == \E i \in 1..Len(map) : map[i].key = key
BoundTo(map, key, trust) ==
    \E i \in 1..Len(map) : map[i].key = key /\ map[i].value = trust

\* some entry of the queue has this sensor_id
HasSensor(q, sensor_id) ==
    \E i \in 1..Len(q.entries) : q.entries[i].sensor_id = sensor_id

\* the operations of the calls made, in order
Ops(calls) == [i \in 1..Len(calls) |-> calls[i].op]

\* s without the entries whose sensor_id an earlier entry has
RECURSIVE FirstPerSensor(_)
FirstPerSensor(s) ==
    IF s = <<>> THEN <<>>
    ELSE LET init == SubSeq(s, 1, Len(s) - 1)
             e == s[Len(s)]
         IN  IF \E i \in 1..Len(init) : init[i].sensor_id = e.sensor_id
             THEN FirstPerSensor(init)
             ELSE Append(FirstPerSensor(init), e)

\* C1: a PDU whose length ilen is below 2 or differs from 2 + payload_len makes
\* msg_process return a negative value, with no cloud call and the heap and the
\* trust map as they were, whatever its type and whatever the sessions.
C1_LengthDiscipline ==
    [][(Processed /\ (last'.ilen < 2 \/ last'.ilen # 2 + last'.payload_len))
          => /\ last'.ret < 0
             /\ last'.calls = <<>>
             /\ heap' = heap
             /\ trust_map' = trust_map]_vars

\* C1 witness: a SCHEMA_END longer than its header says, refused while a trust
\* is in the store.
C1_Witness ==
    /\ last.type = "SCHEMA_END"
    /\ last.ilen >= 2
    /\ last.ilen # 2 + last.payload_len
    /\ last.ret < 0
    /\ trust_map # <<>>

\* C2: a REGISTER_REQ that follows a REGISTER_REQ answered SUCCESS on the same
\* socket, with the same device id and the same peer pid (0 included), is
\* answered SUCCESS with the same uuid and token and calls no mknode.
C2_RegisterIdempotent ==
    [][(/\ Processed
        /\ last.type = "REGISTER_REQ" /\ last.ret > 0 /\ last.result = "SUCCESS"
        /\ last'.type = "REGISTER_REQ" /\ last'.ret > 0
        /\ msg_register_has_valid_length(last'.ilen) /\ last'.devName0 # 0
        /\ last'.sock = last.sock /\ last'.id = last.id /\ last'.pid = last.pid)
          => /\ last'.result = "SUCCESS"
             /\ last'.cred = last.cred
             /\ \A i \in 1..Len(last'.calls) : last'.calls[i].op # "mknode"]_vars

\* C3: DATA, SCHEMA, SCHEMA_END, CONFIG_RESP, DATA_RESP and UNREGISTER_REQ on a
\* socket with no trust in the map give CREDENTIAL_UNAUTHORIZED, call no cloud
\* operation and leave the heap and the map as they were.
C3_Unauthorized ==
    [][(/\ Processed
        /\ last'.type \in {"DATA", "SCHEMA", "SCHEMA_END", "CONFIG_RESP",
                           "DATA_RESP", "UNREGISTER_REQ"}
        /\ last'.ret >= 0
        /\ ~Bound(trust_map, last'.sock))
          => /\ last'.result = "CREDENTIAL_UNAUTHORIZED"
             /\ last'.calls = <<>>
             /\ heap' = heap
             /\ trust_map' = trust_map]_vars

\* C3 witness: a DATA refused on a socket without trust while the other socket
\* has one.
C3_Witness ==
    /\ last.type = "DATA"
    /\ Handled
    /\ last.result = "CREDENTIAL_UNAUTHORIZED"
    /\ ~Bound(trust_map, last.sock)
    /\ trust_map # <<>>

\* C4: a trust made by REGISTER_REQ starts with rollback set and one made by
\* AUTH_REQ with rollback clear; a SCHEMA or SCHEMA_END processed on the socket
\* a trust is stored under clears its rollback; a rollback once clear stays
\* clear.
C4_RollbackFlip ==
    [][Processed =>
        \A t \in 1..Len(heap') :
            /\ t > Len(heap) => (heap'[t].rollback <=> last'.type = "REGISTER_REQ")
            /\ (/\ t <= Len(heap)
                /\ last'.type \in {"SCHEMA", "SCHEMA_END"}
                /\ last'.ret >= 0
                /\ BoundTo(trust_map, last'.sock, t)) => ~heap'[t].rollback
            /\ (t <= Len(heap) /\ ~heap[t].rollback) => ~heap'[t].rollback]_vars

\* C5: a SCHEMA_END on a socket with a trust, refused by the cloud: the reply
\* carries the cloud's code, the committed schema is what it was, nothing is
\* staged any more and the socket still has its trust.
C5_SchemaRejected ==
    [][(/\ Processed
        /\ last'.type = "SCHEMA_END" /\ last'.ret >= 0
        /\ last'.trust # NULL
        /\ \E i \in 1..Len(last'.calls) :
              last'.calls[i].op = "schema" /\ last'.calls[i].result # "SUCCESS")
          => /\ last'.rtype = "SCHEMA_END_RESP"
             /\ last'.result = last'.calls[Len(last'.calls)].result
             /\ heap'[last'.trust].schema = heap[last'.trust].schema
             /\ heap'[last'.trust].schema_tmp.entries = <<>>
             /\ l_hashmap_lookup(trust_map', last'.sock) = last'.trust]_vars

\* C5 witness: the cloud refused a SCHEMA_END of a trust that has a committed
\* schema.
C5_Witness ==
    /\ last.type = "SCHEMA_END"
    /\ Handled
    /\ last.trust # NULL
    /\ last.result \in CloudErrors
    /\ heap[last.trust].schema.entries # <<>>
    /\ heap[last.trust].schema_tmp.entries = <<>>

\* C6: after a SCHEMA_END accepted by the cloud, the committed schema is the
\* entries received since the transfer began, in arrival order, the first per
\* sensor_id, and nothing is staged; in the first transfer and in later ones.
C6_SchemaCommit ==
    (/\ last.type = "SCHEMA_END" /\ Handled
     /\ last.trust # NULL
     /\ last.result = "SUCCESS")
      => /\ heap[last.trust].schema.alloc
         /\ heap[last.trust].schema.entries = FirstPerSensor(last.received)
         /\ heap[last.trust].schema_tmp.entries = <<>>

\* C7: an UNREGISTER_REQ on a socket with a trust removes the trust from the
\* map exactly when rmnode answers SUCCESS; when rmnode fails the reply carries
\* its code and the socket keeps its trust.
C7_Unregister ==
    [][(/\ Processed
        /\ last'.type = "UNREGISTER_REQ" /\ last'.ret >= 0
        /\ last'.trust # NULL)
          => /\ last'.rtype = "UNREGISTER_RESP"
             /\ Ops(last'.calls) = <<"rmnode">>
             /\ last'.result = last'.calls[1].result
             /\ IF last'.calls[1].result = "SUCCESS"
                THEN ~BoundTo(trust_map', last'.sock, last'.trust)
                ELSE l_hashmap_lookup(trust_map', last'.sock) = last'.trust]_vars

\* C8: after a REGISTER_REQ answered SUCCESS, the trust a lookup of the socket
\* finds has the uuid and the token of the reply.
C8_RegisterStored ==
    (last.type = "REGISTER_REQ" /\ Handled /\ last.result = "SUCCESS")
      => LET trust == l_hashmap_lookup(trust_map, last.sock)
         IN  /\ trust # NULL
             /\ heap[trust].uuid = last.cred.uuid
             /\ heap[trust].token = last.cred.token

\* C9: a DATA on a socket with a trust, for a sensor_id with no entry in the
\* committed schema (staged entries do not count), is answered DATA_RESP
\* INVALID_DATA with no cloud call; and every push of data is for a sensor_id
\* of the committed schema of the trust of that socket.
C9_DataUnknownSensor ==
    /\ (/\ last.type = "DATA" /\ Handled
        /\ last.trust # NULL
        /\ ~HasSensor(heap[last.trust].schema, last.sensor_id))
          => /\ last.rtype = "DATA_RESP"
             /\ last.result = "INVALID_DATA"
             /\ last.calls = <<>>
    /\ \A i \in 1..Len(last.calls) :
          last.calls[i].op = "data"
            => /\ Bound(trust_map, last.sock)
               /\ HasSensor(heap[l_hashmap_lookup(trust_map, last.sock)].schema,
                            last.calls[i].sensor_id)

\* C9 witness: the sensor_id of the DATA is staged but not committed.
C9_Witness ==
    /\ last.type = "DATA"
    /\ Handled
    /\ last.trust # NULL
    /\ HasSensor(heap[last.trust].schema_tmp, last.sensor_id)
    /\ ~HasSensor(heap[last.trust].schema, last.sensor_id)
    /\ last.result = "INVALID_DATA"

\* the first entry of the queue for the sensor has an accepted combination
ValidSensor(q, sensor_id) ==
    \E i \in 1..Len(q.entries) :
        /\ q.entries[i].sensor_id = sensor_id
        /\ \A j \in 1..(i - 1) : q.entries[j].sensor_id # sensor_id
        /\ <<q.entries[i].type_id, q.entries[i].value_type, q.entries[i].unit>>
              \in ValidSchemaTable

\* C10: a DATA on a socket with a trust, for a sensor_id whose committed entry
\* is valid, pushes the data once and then pulls once, both with the uuid and
\* token of the trust and the sensor_id of the PDU; the DATA_RESP carries the
\* result of the push, whatever the pull answered.
C10_DataPushPull ==
    (/\ last.type = "DATA" /\ Handled
     /\ last.trust # NULL
     /\ ValidSensor(heap[last.trust].schema, last.sensor_id))
      => /\ Ops(last.calls) = <<"data", "getdata">>
         /\ \A i \in 1..2 :
               /\ last.calls[i].uuid = heap[last.trust].uuid
               /\ last.calls[i].token = heap[last.trust].token
               /\ last.calls[i].sensor_id = last.sensor_id
         /\ last.rtype = "DATA_RESP"
         /\ last.result = last.calls[1].result

\* C10 witness: the push succeeded, the pull failed and the reply is SUCCESS.
C10_Witness ==
    /\ last.type = "DATA"
    /\ Handled
    /\ Len(last.calls) = 2
    /\ last.calls[1].result = "SUCCESS"
    /\ last.calls[2].result # "SUCCESS"
    /\ last.result = "SUCCESS"

\* the REGISTER_REQ of the step is well-formed and is not answered from the
\* trust of its socket: no trust, or another device id, or another pid
FreshRegister ==
    /\ Processed
    /\ last'.type = "REGISTER_REQ" /\ last'.ret >= 0
    /\ msg_register_has_valid_length(last'.ilen) /\ last'.devName0 # 0
    /\ ~(/\ last'.trust # NULL
          /\ heap[last'.trust].id = last'.id
          /\ heap[last'.trust].pid = last'.pid)

\* C11: a REGISTER_REQ that is not a re-transmit calls mknode first and signin
\* only when mknode answered SUCCESS; when either fails the reply is a
\* REGISTER_RESP with that code and a payload of one byte, and the heap and the
\* trust map are as they were.
C11_RegisterCloudFailure ==
    [][FreshRegister =>
        /\ Ops(last'.calls) \in {<<"mknode">>, <<"mknode", "signin">>}
        /\ (Len(last'.calls) = 2 <=> last'.calls[1].result = "SUCCESS")
        /\ last'.calls[Len(last'.calls)].result # "SUCCESS" =>
              /\ last'.rtype = "REGISTER_RESP"
              /\ last'.result = last'.calls[Len(last'.calls)].result
              /\ last'.plen = SizeofResult
              /\ last'.ret = SizeofHeader + SizeofResult
              /\ heap' = heap
              /\ trust_map' = trust_map]_vars

\* C11 witness: mknode succeeded, signin failed, on a socket that already has
\* a trust of another device.
C11_Witness ==
    /\ last.type = "REGISTER_REQ"
    /\ Handled
    /\ Ops(last.calls) = <<"mknode", "signin">>
    /\ last.calls[2].result \in CloudErrors
    /\ last.trust # NULL
    /\ heap[last.trust].id # last.id

\* C12: a REGISTER_REQ too short to hold one byte of name, or whose first name
\* byte is 0, is answered REGISTER_INVALID_DEVICENAME with no cloud call and
\* the heap and the trust map as they were, whatever the socket holds.
C12_InvalidDeviceName ==
    [][(/\ Processed
        /\ last'.type = "REGISTER_REQ" /\ last'.ret >= 0
        /\ (last'.ilen <= SizeofHeader + SizeofId \/ last'.devName0 = 0))
          => /\ last'.rtype = "REGISTER_RESP"
             /\ last'.result = "REGISTER_INVALID_DEVICENAME"
             /\ last'.calls = <<>>
             /\ last'.cred = NoCred
             /\ heap' = heap
             /\ trust_map' = trust_map]_vars

\* C12 witness: a name starting with 0 refused on a socket whose trust has the
\* device id of the PDU.
C12_Witness ==
    /\ last.type = "REGISTER_REQ"
    /\ Handled
    /\ last.ilen > SizeofHeader + SizeofId
    /\ last.devName0 = 0
    /\ last.result = "REGISTER_INVALID_DEVICENAME"
    /\ last.trust # NULL
    /\ heap[last.trust].id = last.id

\* C12 seen again on the short PDU: header and id, no name, refused on a
\* socket with a trust.
C12_ShortPdu ==
    /\ last.type = "REGISTER_REQ"
    /\ Handled
    /\ last.ilen = SizeofHeader + SizeofId
    /\ last.result = "REGISTER_INVALID_DEVICENAME"
    /\ last.trust # NULL

\* C13: an AUTH_REQ on a socket with no trust calls signin once; when signin
\* fails the reply carries its code and no trust is made; when signin succeeds
\* with a schema list without entries the reply is SCHEMA_EMPTY and no trust is
\* made; when it succeeds with entries a trust is inserted for the socket, with
\* rollback clear and that list as its schema.
C13_AuthFresh ==
    [][(/\ Processed
        /\ last'.type = "AUTH_REQ" /\ last'.ret >= 0
        /\ last'.trust = NULL)
          => /\ Ops(last'.calls) = <<"signin">>
             /\ last'.rtype = "AUTH_RESP"
             /\ IF last'.calls[1].result # "SUCCESS"
                THEN /\ last'.result = last'.calls[1].result
                     /\ heap' = heap /\ trust_map' = trust_map
                ELSE IF last'.schema_list.entries = <<>>
                THEN /\ last'.result = "SCHEMA_EMPTY"
                     /\ heap' = heap /\ trust_map' = trust_map
                ELSE /\ last'.result = "SUCCESS"
                     /\ Len(heap') = Len(heap) + 1
                     /\ l_hashmap_lookup(trust_map', last'.sock) = Len(heap')
                     /\ ~heap'[Len(heap')].rollback
                     /\ heap'[Len(heap')].schema = last'.schema_list]_vars

\* C14: an AUTH_REQ on a socket that has a trust is answered AUTH_RESP SUCCESS
\* whatever uuid and token it carries, calls no cloud operation and leaves the
\* heap (every field of that trust) and the trust map as they were.
C14_AuthAgain ==
    [][(/\ Processed
        /\ last'.type = "AUTH_REQ" /\ last'.ret >= 0
        /\ last'.trust # NULL)
          => /\ last'.rtype = "AUTH_RESP"
             /\ last'.result = "SUCCESS"
             /\ last'.calls = <<>>
             /\ heap' = heap
             /\ trust_map' = trust_map]_vars

\* C14 witness: the trust was made by a REGISTER_REQ and has another uuid than
\* the AUTH_REQ.
C14_Witness ==
    /\ last.type = "AUTH_REQ"
    /\ Handled
    /\ last.trust # NULL
    /\ heap[last.trust].rollback
    /\ heap[last.trust].uuid # last.uuid
    /\ last.result = "SUCCESS"

\* the AUTH_REQ of the last call made a trust from what proto_signin handed back
AuthMadeTrust ==
    /\ last.type = "AUTH_REQ" /\ Handled
    /\ last.trust = NULL
    /\ last.result = "SUCCESS"

\* the config list msg_auth gave to the trust it made: the list of
\* proto_signin when config_is_valid accepted it, an empty one when not
ConfigKept ==
    heap[l_hashmap_lookup(trust_map, last.sock)].config.entries
        = last.config_list.entries

\* the bits of event_flags outside TIME, LOWER_THRESHOLD, UPPER_THRESHOLD,
\* CHANGE and UNREGISTERED
OtherFlags(event_flags) ==
    BitAnd(event_flags,
           255 - (KNOT_EVT_FLAG_TIME + KNOT_EVT_FLAG_LOWER_THRESHOLD
                  + KNOT_EVT_FLAG_UPPER_THRESHOLD + KNOT_EVT_FLAG_CHANGE
                  + KNOT_EVT_FLAG_UNREGISTERED))

\* C15: config validation rejects an entry whenever its event_flags has a bit
\* outside TIME, LOWER_THRESHOLD, UPPER_THRESHOLD, CHANGE and UNREGISTERED,
\* for each of the 256 values, mixed ones included; event_flags 0 passes.
C15_EventFlags ==
    AuthMadeTrust =>
        \A i \in 1..Len(last.config_list.entries) :
            LET config == last.config_list.entries[i] IN
            /\ OtherFlags(config.event_flags) # 0 => ~ConfigKept
            /\ (/\ Len(last.config_list.entries) = 1
                /\ config.event_flags = KNOT_EVT_FLAG_NONE
                /\ config.time_sec = 0) => ConfigKept

\* the flags and time_sec of the entry pass the other checks of the validator
\* and a threshold flag is set
ThresholdEntry(config) ==
    /\ BitAnd(config.event_flags, KNOT_EVT_FLAG_LOWER_THRESHOLD
                                   + KNOT_EVT_FLAG_UPPER_THRESHOLD) # 0
    /\ OtherFlags(config.event_flags) = 0
    /\ (BitAnd(config.event_flags, KNOT_EVT_FLAG_TIME) # 0 <=> config.time_sec # 0)

\* C16: an entry with a threshold flag is rejected exactly when
\* upper.int < lower.int, or upper.int = lower.int and upper.dec <= lower.dec,
\* over the whole ranges of the signed integer part and the unsigned decimal
\* part; it is accepted when the upper limit is the greater one.
C16_Thresholds ==
    (AuthMadeTrust /\ Len(last.config_list.entries) = 1
     /\ ThresholdEntry(last.config_list.entries[1]))
      => LET config == last.config_list.entries[1] IN
         ~ConfigKept <=>
            \/ config.upper_int < config.lower_int
            \/ /\ config.upper_int = config.lower_int
               /\ config.upper_dec <= config.lower_dec

\* C17: when the store is torn down, rmnode is called with the uuid and token
\* of every trust whose rollback is set, and the trust is released; a trust
\* whose rollback is clear is released with no rmnode.
C17_RollbackOnTeardown ==
    [][(~stopped /\ stopped') =>
        \A i \in 1..Len(trust_map) :
            LET trust == heap[trust_map[i].value]
                removed == \E k \in 1..Len(last'.calls) :
                              /\ last'.calls[k].op = "rmnode"
                              /\ last'.calls[k].uuid = trust.uuid
                              /\ last'.calls[k].token = trust.token
            IN  trust.rollback <=> removed]_vars

\* C18: every trust in the trust map has a schema list and a config list, empty
\* or not, never NULL, after any sequence of PDUs.
C18_ListsNeverNull ==
    \A i \in 1..Len(trust_map) :
        /\ heap[trust_map[i].value].schema.alloc
        /\ heap[trust_map[i].value].config.alloc

\* C19: the trust map holds at most one trust per socket; inserting for a
\* socket that has one adds no second entry.
C19_OneTrustPerSocket ==
    \A i, j \in 1..Len(trust_map) :
        trust_map[i].key = trust_map[j].key => i = j

\* s without any entry for sensor_id
RECURSIVE RemoveAll(_, _)
RemoveAll(s, sensor_id) ==
    IF s = <<>> THEN <<>>
    ELSE IF Head(s).sensor_id = sensor_id THEN RemoveAll(Tail(s), sensor_id)
         ELSE <<Head(s)>> \o RemoveAll(Tail(s), sensor_id)

\* C20: after a CONFIG_RESP for a sensor_id on a socket with a trust, the
\* config of the trust has no entry for that sensor_id, however many it had,
\* the other entries are there in their order, no cloud operation was called
\* and msg_process returned 0.
C20_ConfigResp ==
    [][(/\ Processed
        /\ last'.type = "CONFIG_RESP" /\ last'.ret >= 0
        /\ last'.trust # NULL)
          => /\ heap'[last'.trust].config.entries
                   = RemoveAll(heap[last'.trust].config.entries, last'.sensor_id)
             /\ last'.calls = <<>>
             /\ last'.ret = 0]_vars

\* C21: a DATA_RESP on a socket with a trust, for a sensor_id whose committed
\* entry is valid, calls setdata once and then data once with the uuid and
\* token of the trust; with no trust, no entry or an invalid entry it calls
\* neither; msg_process returns 0 and the heap and the trust map are as they
\* were, in every case.
C21_SetdataResp ==
    [][(Processed /\ last'.type = "DATA_RESP" /\ last'.ret >= 0)
          => /\ last'.ret = 0
             /\ heap' = heap
             /\ trust_map' = trust_map
             /\ IF /\ last'.trust # NULL
                   /\ ValidSensor(heap[last'.trust].schema, last'.sensor_id)
                THEN /\ Ops(last'.calls) = <<"setdata", "data">>
                     /\ \A i \in 1..2 :
                           /\ last'.calls[i].uuid = heap[last'.trust].uuid
                           /\ last'.calls[i].token = heap[last'.trust].token
                           /\ last'.calls[i].sensor_id = last'.sensor_id
                ELSE last'.calls = <<>>]_vars

\* C21 witness: both calls were made, the push failed and nothing is sent.
C21_Witness ==
    /\ last.type = "DATA_RESP"
    /\ Handled
    /\ Ops(last.calls) = <<"setdata", "data">>
    /\ last.calls[2].result \in CloudErrors
    /\ last.ret = 0

\* C21 seen on the other side: a DATA_RESP for a sensor whose committed entry
\* is not valid calls nothing.
C21_InvalidEntry ==
    /\ last.type = "DATA_RESP"
    /\ Handled
    /\ last.trust # NULL
    /\ HasSensor(heap[last.trust].schema, last.sensor_id)
    /\ last.calls = <<>>

\* the response type the claim gives to each request type
ResponseType(type) ==
    CASE type = "REGISTER_REQ" -> "REGISTER_RESP"
      [] type = "UNREGISTER_REQ" -> "UNREGISTER_RESP"
      [] type = "DATA" -> "DATA_RESP"
      [] type = "AUTH_REQ" -> "AUTH_RESP"
      [] type = "SCHEMA" -> "SCHEMA_RESP"
      [] type = "SCHEMA_END" -> "SCHEMA_END_RESP"
      [] OTHER -> "0"

\* C22: for a PDU that passes the length checks and is neither CONFIG_RESP nor
\* DATA_RESP, msg_process returns 2 + payload_len with the response type of
\* the request (0 and INVALID_DATA for an unknown type); payload_len is 1
\* unless the reply is a REGISTER_RESP SUCCESS with a credential, so no failed
\* request is answered with the length of a credential.
C22_ReplyAssembly ==
    (Handled /\ last.type \notin {"CONFIG_RESP", "DATA_RESP"})
      => /\ last.ret = 2 + last.plen
         /\ last.rtype = ResponseType(last.type)
         /\ last.type = "UNKNOWN" => last.result = "INVALID_DATA"
         /\ IF last.rtype = "REGISTER_RESP" /\ last.result = "SUCCESS"
            THEN /\ last.plen = 1 + KNOT_PROTOCOL_UUID_LEN + KNOT_PROTOCOL_TOKEN_LEN
                 /\ last.cred # NoCred
            ELSE /\ last.plen = 1
                 /\ last.cred = NoCred

\* C22 witness: a REGISTER_REQ the cloud refused, answered in 3 octets.
C22_Witness ==
    /\ last.type = "REGISTER_REQ"
    /\ Handled
    /\ last.result \in CloudErrors
    /\ last.ret = 3

\* C22 seen on the other replies: a credential sent again to a known device,
\* and a SCHEMA_END answered.
C22_Credential ==
    /\ last.type = "REGISTER_REQ"
    /\ Handled
    /\ last.calls = <<>>
    /\ last.result = "SUCCESS"
    /\ last.ret = 79

C22_SchemaEnd == last.type = "SCHEMA_END" /\ Handled /\ last.ret = 3

\* C23: an AUTH_REQ whose signin succeeded with a schema that has entries is
\* answered SUCCESS whatever the config; the trust it inserts has the schema of
\* signin, and as config the list of signin when config_is_valid accepts it,
\* an allocated list without entries when config_is_valid rejects it.
C23_AuthConfig ==
    [][(/\ Processed
        /\ last'.type = "AUTH_REQ" /\ last'.ret >= 0
        /\ last'.trust = NULL
        /\ Ops(last'.calls) = <<"signin">> /\ last'.calls[1].result = "SUCCESS"
        /\ last'.schema_list.entries # <<>>)
          => LET trust == heap'[Len(heap')] IN
             /\ last'.result = "SUCCESS"
             /\ Len(heap') = Len(heap) + 1
             /\ l_hashmap_lookup(trust_map', last'.sock) = Len(heap')
             /\ trust.schema = last'.schema_list
             /\ trust.config.alloc
             /\ (\A wraps \in BOOLEAN :
                    config_is_valid(last'.config_list, wraps) # "SUCCESS")
                  => trust.config.entries = <<>>
             /\ (\A wraps \in BOOLEAN :
                    config_is_valid(last'.config_list, wraps) = "SUCCESS")
                  => trust.config.entries = last'.config_list.entries]_vars

\* C23 witness: signin handed back entries of config that the validator
\* rejects; the trust was made with its schema and no config entry.
C23_Witness ==
    /\ AuthMadeTrust
    /\ last.schema_list.entries # <<>>
    /\ last.config_list.entries # <<>>
    /\ heap[l_hashmap_lookup(trust_map, last.sock)].config = l_queue_new
    /\ heap[l_hashmap_lookup(trust_map, last.sock)].schema = last.schema_list

\* C23 seen on the other side: a config with entries was accepted and kept.
C23_Kept ==
    /\ AuthMadeTrust
    /\ last.config_list.entries # <<>>
    /\ ConfigKept

\* the handler waiting in a cloud call reads or writes its trust when the call
\* returns
WillUseTrust ==
    \/ suspended.handler = "msg_data" /\ suspended.at = "proto_data"
    \/ suspended.handler = "msg_setdata_resp"
    \/ suspended.handler = "msg_schema"

\* C24: while a handler that looked a trust up waits in a cloud call and is
\* still going to use the trust, the trust is not freed: the handler holds a
\* reference on it, whatever PDU or teardown runs during the call.
C24_HeldAcrossCloudCall ==
    WillUseTrust =>
        /\ ~heap[suspended.trust].freed
        /\ heap[suspended.trust].refs >= 1

\* C25: every trust ever created is either the trust a lookup of its socket
\* returns, with refs >= 1, or it has been freed; no trust keeps a reference
\* while out of reach of the map.
C25_ReachableOrFreed ==
    \A t \in 1..Len(heap) :
        \/ heap[t].freed
        \/ /\ heap[t].refs >= 1
           /\ \E sock \in Socks : l_hashmap_lookup(trust_map, sock) = t

\* the entries of the map whose key is not this key, in order
OtherEntries(map, key) ==
    LET Other(e) == e.key # key IN SelectSeq(map, Other)

\* the credentials a call was given
CallCred(call) == [uuid |-> call.uuid, token |-> call.token]

\* C26: a PDU processed on socket h, whatever its outcome, leaves the map
\* entries of every other socket and every field of their trusts as they were,
\* and each cloud call it makes carries the credentials of h's own trust or,
\* for REGISTER_REQ and AUTH_REQ, those of the request (made by proto_mknode
\* for it, or sent in it).
C26_Frame ==
    [][Processed =>
        LET h == last'.sock
            own == IF last'.trust # NULL
                   THEN {[uuid |-> heap[last'.trust].uuid,
                          token |-> heap[last'.trust].token]}
                   ELSE {}
            request == IF last'.type = "REGISTER_REQ" /\ last'.calls # <<>>
                       THEN {CallCred(last'.calls[1])}
                       ELSE IF last'.type = "AUTH_REQ"
                       THEN {[uuid |-> last'.uuid, token |-> last'.token]}
                       ELSE {}
        IN  /\ OtherEntries(trust_map', h) = OtherEntries(trust_map, h)
            /\ \A i \in 1..Len(trust_map) :
                  trust_map[i].key # h =>
                      heap'[trust_map[i].value] = heap[trust_map[i].value]
            /\ \A i \in 1..Len(last'.calls) :
                  CallCred(last'.calls[i]) \in
                      IF last'.type \in {"REGISTER_REQ", "AUTH_REQ"}
                      THEN request ELSE own]_vars

\* C26 witness: an UNREGISTER_REQ took the trust of its socket away with a
\* proto_rmnode carrying that trust's credentials while another socket is bound
\* to a live trust with other credentials.
C26_Witness ==
    /\ Handled
    /\ last.type = "UNREGISTER_REQ"
    /\ last.result = "SUCCESS"
    /\ last.trust # NULL
    /\ heap[last.trust].freed
    /\ Ops(last.calls) = <<"rmnode">>
    /\ \E i \in 1..Len(trust_map) :
          /\ trust_map[i].key # last.sock
          /\ ~heap[trust_map[i].value].freed
          /\ heap[trust_map[i].value].uuid # last.calls[1].uuid

\* C26: a SCHEMA_END committed the staged list of its own trust while another
\* socket is bound.
C26_SchemaEnd ==
    /\ Handled
    /\ last.type = "SCHEMA_END"
    /\ last.result = "SUCCESS"
    /\ heap[last.trust].schema.entries # <<>>
    /\ \E i \in 1..Len(trust_map) : trust_map[i].key # last.sock

====
